---- MODULE Spec2Model ----
(***************************************************************************)
(* TFImageDetection (ambianic/pipeline/ai/image_detection.py): the         *)
(* thumbnail / pad / infer / log-stats / rank steps of detect(), for one   *)
(* component instance whose detect() is called from one or two threads.    *)
(*                                                                         *)
(* Numbers.  Sizes are pixel counts.  The monotonic clock is counted in    *)
(* ticks.  A confidence is counted in tenths (0.6 is 6).  A raw box        *)
(* coordinate c stands for c / BoxUnits, and every quotient the code       *)
(* computes in floating point is kept as an exact fraction <<num, den>>.   *)
(***************************************************************************)
EXTENDS Integers, Sequences, FiniteSets, TLC

\* ------------------------------------------------------------------ bounds
MaxN == 3
MaxTopK == 2
MaxClock == 3
MaxImg == 4
MaxTensor == 3
MaxPadImg == 3
MaxPadTensor == 2
BoxUnits == 2

\* confidence_threshold=0.6, in tenths
DefaultThreshold == 6

\* Confidences below, at and above the default threshold (tenths).
ScoreLevels == {5, 6, 9}
\* Label codes the engine reports.
LabelCodes == {0, 1, 3}
\* The threads that may call detect() on the instance.
Threads == {"t1", "t2"}

\* Label files, as the (number, text) pairs the regular expression of
\* load_labels splits their lines into: one with dense codes, one with gaps
\* (as in the COCO label files, which skip codes).
LabelFiles ==
  { << <<0, "person">>, <<1, "bicycle">> >>,
    << <<1, "bicycle">>, <<3, "motorcycle">> >> }

\* ----------------------------------------------------------------- helpers
Min(a, b) == IF a <= b THEN a ELSE b
Max(a, b) == IF a >= b THEN a ELSE b
Abs(a) == IF a >= 0 THEN a ELSE 0 - a

\* Exact fractions <<num, den>>, den > 0.
One == <<1, 1>>
Zero == <<0, 1>>
RLeq(a, b) == a[1] * b[2] <= b[1] * a[2]
\* Python's min(a, b): the first argument unless the second is smaller.
RMin(a, b) == IF RLeq(a, b) THEN a ELSE b

\* Pixel coordinates of an image of the given size.
Coords(size) == (0 .. size[1] - 1) \X (0 .. size[2] - 1)

NoImage == [size |-> <<0, 0>>, pix |-> [p \in {} |-> 0]]

Reverse(s) == [j \in 1 .. Len(s) |-> s[Len(s) + 1 - j]]

\* ------------------------------------------------------------- load_labels
\* {int(num): text.strip() for num, text in lines}: a later line with the
\* same number replaces an earlier one.
load_labels(lines) ==
  [c \in {lines[j][1] : j \in DOMAIN lines} |->
     LET last == CHOOSE j \in DOMAIN lines :
                   /\ lines[j][1] = c
                   /\ \A m \in DOMAIN lines : lines[m][1] = c => m <= j
     IN lines[last][2]]

\* --------------------------------------------------------------- thumbnail
\* Image.thumbnail's size (Pillow's preserve_aspect_ratio): no change when
\* the image fits the requested size, otherwise the dimension the aspect
\* ratio leaves free is rounded to the floor or the ceiling, whichever is
\* closer in aspect (the floor on a tie), and is at least 1.
RoundAspectW(iw, ih, y) ==
  LET fl == (y * iw) \div ih
      ce == IF (y * iw) % ih = 0 THEN fl ELSE fl + 1
      key(n) == Abs(iw * y - n * ih)
  IN Max(IF key(fl) <= key(ce) THEN fl ELSE ce, 1)

RoundAspectH(iw, ih, x) ==
  LET fl == (x * ih) \div iw
      ce == IF (x * ih) % iw = 0 THEN fl ELSE fl + 1
      dist(n) == Abs(iw * n - x * ih)
  IN Max(IF fl = 0 \/ dist(fl) * ce <= dist(ce) * fl THEN fl ELSE ce, 1)

\* A thumbnailer that ignores the aspect ratio of a tall or wide request:
\* it computes the size for the transposed request (h, w).
ThumbnailSizeTransposed(size, req) ==
  LET iw == size[1]
      ih == size[2]
      x == req[2]
      y == req[1]
  IN IF x >= iw /\ y >= ih THEN size
     ELSE IF x * ih >= iw * y
          THEN <<RoundAspectW(iw, ih, y), y>>
          ELSE <<x, RoundAspectH(iw, ih, x)>>

ThumbnailSize(size, req) ==
  LET iw == size[1]
      ih == size[2]
      x == req[1]
      y == req[2]
  IN IF x >= iw /\ y >= ih THEN size
     ELSE IF x * ih >= iw * y
          THEN <<RoundAspectW(iw, ih, y), y>>
          ELSE <<x, RoundAspectH(iw, ih, x)>>

\* ------------------------------------------------------------------ resize
\* A padder that pastes the thumbnail at the far corner: the padding lands on
\* the left and the top.
ExpandFarCorner(im, left, top, right, bottom) ==
  LET size == <<left + im.size[1] + right, top + im.size[2] + bottom>>
  IN [size |-> size,
      pix |-> [p \in Coords(size) |->
                 IF <<p[1] - right, p[2] - bottom>> \in Coords(im.size)
                 THEN im.pix[<<p[1] - right, p[2] - bottom>>]
                 ELSE 0]]

\* ImageOps.expand(image, border=(left, top, right, bottom), fill=0): a new
\* image of the widened size filled with 0, the image pasted at (left, top).
Expand(im, left, top, right, bottom) ==
  LET size == <<left + im.size[1] + right, top + im.size[2] + bottom>>
  IN [size |-> size,
      pix |-> [p \in Coords(size) |->
                 IF <<p[1] - left, p[2] - top>> \in Coords(im.size)
                 THEN im.pix[<<p[1] - left, p[2] - top>>]
                 ELSE 0]]

\* resize(): the thumbnail padded to desired_size on the right and bottom.
Padded(thumb, desired_size) ==
  Expand(thumb, 0, 0, desired_size[1] - thumb.size[1],
         desired_size[2] - thumb.size[2])

\* ----------------------------------------------------------------- ranking
\* np.argsort(scores[0, :n]): the orders of the indices 0 .. n-1 by ascending
\* score; the order among equal scores is the sort's own.
ArgSorts(s, n) ==
  {p \in [1 .. n -> 0 .. n - 1] :
     /\ \A j, m \in 1 .. n : j # m => p[j] # p[m]
     /\ \A j, m \in 1 .. n : j < m => s[p[j]] <= s[p[m]]}

\* The top-k window left in ascending order.
TopKIndicesAscending(p, k) ==
  IF k = 0 THEN p ELSE SubSeq(p, Max(1, Len(p) - k + 1), Len(p))

\* indices_of_sorted_scores[-1*top_k:][::-1]: the Python slice from -k (the
\* whole sequence when k = 0, since -0 is 0), reversed.
TopKIndices(p, k) ==
  Reverse(IF k = 0 THEN p ELSE SubSeq(p, Max(1, Len(p) - k + 1), Len(p)))

\* Lines 273-276: a raw box (ymin, xmin, ymax, xmax) divided by the factors,
\* the far corner clamped to 1.
BackProject(box, wf, hf) ==
  << <<box[2] * wf[2], BoxUnits * wf[1]>>,
     <<box[1] * hf[2], BoxUnits * hf[1]>>,
     RMin(<<box[4] * wf[2], BoxUnits * wf[1]>>, One),
     RMin(<<box[3] * hf[2], BoxUnits * hf[1]>>, One) >>

\* ------------------------------------------------------------------- state
VARIABLES
  image,        \* detect's argument: [size, levels (the sample values it holds)]
  shape,        \* the input tensor's (width, height)
  top_k,        \* tfe.top_k
  confidence_threshold,
  labels,       \* self._labels
  boxes, label_codes, scores, num,   \* the engine's output tensors
  now,          \* the monotonic clock's latest reading
  last_time,    \* self.last_time
  callers,      \* the threads that call detect() on this instance
  pc,           \* each thread's position in detect()
  start_time, end_time,
  thumbnail, new_im, w_factor, h_factor,
  indices_of_sorted_scores, top_k_indices, pos,
  inference_result,
  outcome       \* how each thread's latest call ended

config == <<image, shape, top_k, confidence_threshold, labels, boxes,
            label_codes, scores, num, callers>>
images == <<thumbnail, new_im, w_factor, h_factor>>
ranking == <<indices_of_sorted_scores, top_k_indices, pos, inference_result>>
vars == <<config, now, last_time, pc, start_time, end_time, images, ranking,
          outcome>>

Slots == 0 .. MaxN - 1

\* What every thread holds before its first call.
InitLocals ==
  /\ pc = [t \in Threads |-> "idle"]
  /\ start_time = [t \in Threads |-> 0]
  /\ end_time = [t \in Threads |-> 0]
  /\ thumbnail = [t \in Threads |-> NoImage]
  /\ new_im = [t \in Threads |-> NoImage]
  /\ w_factor = [t \in Threads |-> Zero]
  /\ h_factor = [t \in Threads |-> Zero]
  /\ indices_of_sorted_scores = [t \in Threads |-> <<>>]
  /\ top_k_indices = [t \in Threads |-> <<>>]
  /\ pos = [t \in Threads |-> 1]
  /\ inference_result = [t \in Threads |-> <<>>]
  /\ outcome = [t \in Threads |-> "none"]

\* Output tensors with n valid entries: the first n entries are the given
\* ones, the entries from n on are leftovers (top score, code 0).
Tensor(valid, n, rest) == [i \in Slots |-> IF i < n THEN valid[i] ELSE rest]

\* One fixed picture and tensor: a 4x2 image for a 2x2 input tensor.
FixedGeometry ==
  /\ image = [size |-> <<4, 2>>, levels |-> {1}]
  /\ shape = <<2, 2>>
  /\ boxes = [i \in Slots |-> <<0, 0, BoxUnits, BoxUnits>>]

\* One fixed engine output: a single detection, above the threshold.
FixedDetections ==
  /\ num = 1
  /\ scores = [i \in Slots |-> 9]
  /\ label_codes = [i \in Slots |-> 0]
  /\ top_k = MaxTopK
  /\ confidence_threshold = DefaultThreshold
  /\ labels = load_labels(<< <<0, "person">>, <<1, "bicycle">> >>)

\* The clock stands at its last modelled tick, one tick after __init__.
FixedClock ==
  /\ now = MaxClock
  /\ last_time = MaxClock - 1
  /\ callers = {"t1"}

\* Spec: the engine's outputs, top_k and the label file vary.
Init ==
  /\ InitLocals /\ FixedGeometry /\ FixedClock
  /\ num \in 0 .. MaxN
  /\ \E v \in [Slots -> ScoreLevels] : scores = Tensor(v, num, 9)
  /\ \E v \in [Slots -> LabelCodes] : label_codes = Tensor(v, num, 0)
  /\ top_k \in 0 .. MaxTopK
  /\ confidence_threshold = DefaultThreshold
  /\ \E f \in LabelFiles : labels = load_labels(f)

\* SpecGeom: the image size, the tensor size and the raw box vary.
InitGeom ==
  /\ InitLocals /\ FixedDetections /\ FixedClock
  /\ \E w, h \in 1 .. MaxImg : image = [size |-> <<w, h>>, levels |-> {1}]
  /\ shape \in (1 .. MaxTensor) \X (1 .. MaxTensor)
  /\ \E b \in [1 .. 4 -> 0 .. BoxUnits] : boxes = [i \in Slots |-> b]

\* SpecPad: the image size, the tensor size and the pixels vary.
InitPad ==
  /\ InitLocals /\ FixedDetections /\ FixedClock
  /\ \E w, h \in 1 .. MaxPadImg :
       image = [size |-> <<w, h>>, levels |-> {0, 1}]
  /\ shape \in (1 .. MaxPadTensor) \X (1 .. MaxPadTensor)
  /\ boxes = [i \in Slots |-> <<0, 0, BoxUnits, BoxUnits>>]

\* SpecTime: the clock and the number of calling threads vary.
InitTime ==
  /\ InitLocals /\ FixedGeometry /\ FixedDetections
  /\ now \in 0 .. 1
  /\ last_time \in 0 .. now
  /\ callers \in {{"t1"}, Threads}

\* ----------------------------------------------------------------- actions
Raise(t, exc) ==
  /\ outcome' = [outcome EXCEPT ![t] = exc]
  /\ pc' = [pc EXCEPT ![t] = "idle"]

\* detect(), lines 180-188: the call begins and reads the clock.
DetectBegin(t) ==
  /\ t \in callers
  /\ pc[t] = "idle"
  /\ \E clock \in now .. MaxClock :
       /\ now' = clock
       /\ start_time' = [start_time EXCEPT ![t] = clock]
  /\ pc' = [pc EXCEPT ![t] = "thumbnail"]
  /\ outcome' = [outcome EXCEPT ![t] = "running"]
  /\ thumbnail' = [thumbnail EXCEPT ![t] = NoImage]
  /\ new_im' = [new_im EXCEPT ![t] = NoImage]
  /\ w_factor' = [w_factor EXCEPT ![t] = Zero]
  /\ h_factor' = [h_factor EXCEPT ![t] = Zero]
  /\ indices_of_sorted_scores' = [indices_of_sorted_scores EXCEPT ![t] = <<>>]
  /\ top_k_indices' = [top_k_indices EXCEPT ![t] = <<>>]
  /\ pos' = [pos EXCEPT ![t] = 1]
  /\ inference_result' = [inference_result EXCEPT ![t] = <<>>]
  /\ UNCHANGED <<config, last_time, end_time>>

\* thumbnail(): a copy of the image, resampled to the thumbnail size.
Thumbnail(t) ==
  /\ pc[t] = "thumbnail"
  /\ LET size == ThumbnailSize(image.size, shape)
     IN \E px \in [Coords(size) -> image.levels] :
          thumbnail' = [thumbnail EXCEPT ![t] = [size |-> size, pix |-> px]]
  /\ pc' = [pc EXCEPT ![t] = "resize"]
  /\ UNCHANGED <<config, now, last_time, start_time, end_time, new_im,
                 w_factor, h_factor, ranking, outcome>>

\* resize(): a padded copy of the thumbnail; the size is asserted.
Resize(t) ==
  /\ pc[t] = "resize"
  /\ LET padded == Padded(thumbnail[t], shape)
     IN IF padded.size = shape
        THEN /\ new_im' = [new_im EXCEPT ![t] = padded]
             /\ pc' = [pc EXCEPT ![t] = "infer"]
             /\ UNCHANGED outcome
        ELSE /\ Raise(t, "AssertionError:resize")
             /\ UNCHANGED new_im
  /\ UNCHANGED <<config, now, last_time, start_time, end_time, thumbnail,
                 w_factor, h_factor, ranking>>

\* detect(), lines 198-226: the scale factors; the engine runs.
Infer(t) ==
  /\ pc[t] = "infer"
  /\ w_factor' = [w_factor EXCEPT ![t] = <<thumbnail[t].size[1], new_im[t].size[1]>>]
  /\ h_factor' = [h_factor EXCEPT ![t] = <<thumbnail[t].size[2], new_im[t].size[2]>>]
  /\ pc' = [pc EXCEPT ![t] = "stats_clock"]
  /\ UNCHANGED <<config, now, last_time, start_time, end_time, thumbnail,
                 new_im, ranking, outcome>>

\* _log_stats(), lines 150-153: assert start_time; read the clock.
LogStatsClock(t) ==
  /\ pc[t] = "stats_clock"
  /\ IF start_time[t] = 0
     THEN /\ Raise(t, "AssertionError:start_time")
          /\ UNCHANGED <<now, end_time>>
     ELSE /\ \E clock \in now .. MaxClock :
               /\ now' = clock
               /\ end_time' = [end_time EXCEPT ![t] = clock]
          /\ pc' = [pc EXCEPT ![t] = "stats_fps"]
          /\ UNCHANGED outcome
  /\ UNCHANGED <<config, last_time, start_time, images, ranking>>

\* _log_stats(), line 154: fps = 1.0/(end_time - self.last_time).
LogStatsFps(t) ==
  /\ pc[t] = "stats_fps"
  /\ IF end_time[t] - last_time = 0
     THEN Raise(t, "ZeroDivisionError")
     ELSE /\ pc' = [pc EXCEPT ![t] = "stats_write"]
          /\ UNCHANGED outcome
  /\ UNCHANGED <<config, now, last_time, start_time, end_time, images, ranking>>

\* A _log_stats that stores the call's start instead of its end.
LogStatsWriteStart(t) ==
  /\ pc[t] = "stats_write"
  /\ last_time' = start_time[t]
  /\ pc' = [pc EXCEPT ![t] = "tensors"]
  /\ UNCHANGED <<config, now, start_time, end_time, images, ranking, outcome>>

\* _log_stats(), lines 155-161: log; self.last_time = end_time.
LogStatsWrite(t) ==
  /\ pc[t] = "stats_write"
  /\ last_time' = end_time[t]
  /\ pc' = [pc EXCEPT ![t] = "tensors"]
  /\ UNCHANGED <<config, now, start_time, end_time, images, ranking, outcome>>

\* detect(), lines 238-256: read the output tensors, sort, take the window.
ReadTensors(t) ==
  /\ pc[t] = "tensors"
  /\ \E p \in ArgSorts(scores, Min(num, MaxN)) :
       /\ indices_of_sorted_scores' = [indices_of_sorted_scores EXCEPT ![t] = p]
       /\ top_k_indices' = [top_k_indices EXCEPT ![t] = TopKIndices(p, top_k)]
  /\ pos' = [pos EXCEPT ![t] = 1]
  /\ inference_result' = [inference_result EXCEPT ![t] = <<>>]
  /\ pc' = [pc EXCEPT ![t] = "loop"]
  /\ UNCHANGED <<config, now, last_time, start_time, end_time, images, outcome>>

\* The detection the loop body appends for index i.  The index is kept
\* beside the code's (label, confidence, box) to tell where it came from.
Detection(t, i) ==
  [label |-> labels[label_codes[i]],
   confidence |-> scores[i],
   box |-> BackProject(boxes[i], w_factor[t], h_factor[t]),
   i |-> i]

\* A loop body that stops at the first candidate below the threshold.
LoopStepBreak(t) ==
  /\ pc[t] = "loop"
  /\ pos[t] <= Len(top_k_indices[t])
  /\ LET i == top_k_indices[t][pos[t]]
         li == label_codes[i]
     IN IF scores[i] >= confidence_threshold
        THEN IF li < Cardinality(DOMAIN labels)
             THEN IF li \in DOMAIN labels
                  THEN /\ inference_result' =
                            [inference_result EXCEPT
                               ![t] = Append(@, Detection(t, i))]
                       /\ pos' = [pos EXCEPT ![t] = @ + 1]
                       /\ UNCHANGED <<pc, outcome>>
                  ELSE /\ Raise(t, "KeyError")
                       /\ UNCHANGED <<pos, inference_result>>
             ELSE /\ pos' = [pos EXCEPT ![t] = Len(top_k_indices[t]) + 1]
                  /\ UNCHANGED <<pc, outcome, inference_result>>
        ELSE /\ pos' = [pos EXCEPT ![t] = Len(top_k_indices[t]) + 1]
             /\ UNCHANGED <<pc, outcome, inference_result>>
  /\ UNCHANGED <<config, now, last_time, start_time, end_time, images,
                 indices_of_sorted_scores, top_k_indices>>

\* detect(), lines 260-288: one pass of the loop over top_k_indices.
LoopStep(t) ==
  /\ pc[t] = "loop"
  /\ pos[t] <= Len(top_k_indices[t])
  /\ LET i == top_k_indices[t][pos[t]]
         li == label_codes[i]
     IN IF scores[i] >= confidence_threshold
        THEN IF li < Cardinality(DOMAIN labels)
             THEN IF li \in DOMAIN labels
                  THEN /\ inference_result' =
                            [inference_result EXCEPT
                               ![t] = Append(@, Detection(t, i))]
                       /\ pos' = [pos EXCEPT ![t] = @ + 1]
                       /\ UNCHANGED <<pc, outcome>>
                  ELSE /\ Raise(t, "KeyError")
                       /\ UNCHANGED <<pos, inference_result>>
             ELSE /\ pos' = [pos EXCEPT ![t] = @ + 1]
                  /\ UNCHANGED <<pc, outcome, inference_result>>
        ELSE /\ pos' = [pos EXCEPT ![t] = @ + 1]
             /\ UNCHANGED <<pc, outcome, inference_result>>
  /\ UNCHANGED <<config, now, last_time, start_time, end_time, images,
                 indices_of_sorted_scores, top_k_indices>>

\* detect(), line 289: the loop is over; return.
Return(t) ==
  /\ pc[t] = "loop"
  /\ pos[t] > Len(top_k_indices[t])
  /\ outcome' = [outcome EXCEPT ![t] = "returned"]
  /\ pc' = [pc EXCEPT ![t] = "idle"]
  /\ UNCHANGED <<config, now, last_time, start_time, end_time, images, ranking>>

Next ==
  \E t \in Threads :
    \/ DetectBegin(t)
    \/ Thumbnail(t)
    \/ Resize(t)
    \/ Infer(t)
    \/ LogStatsClock(t)
    \/ LogStatsFps(t)
    \/ LogStatsWrite(t)
    \/ ReadTensors(t)
    \/ LoopStep(t)
    \/ Return(t)

Spec == Init /\ [][Next]_vars
SpecGeom == InitGeom /\ [][Next]_vars
SpecPad == InitPad /\ [][Next]_vars
SpecTime == InitTime /\ [][Next]_vars

\* ------------------------------------------------------------------ claims
Emitted(t) == [j \in DOMAIN inference_result[t] |-> inference_result[t][j].i]
EmittedSet(t) == {inference_result[t][j].i : j \in DOMAIN inference_result[t]}

\* The first k entries of a sequence.
Take(s, k) == SubSeq(s, 1, Min(k, Len(s)))

\* The two predicates a candidate must pass, as the specification words them.
ClearsThreshold(i) == scores[i] >= confidence_threshold
Resolvable(i) == label_codes[i] \in DOMAIN labels

\* The top_k highest-scoring candidates among the first N, in the order the
\* sort of the call gave them.
Window(t) ==
  LET p == indices_of_sorted_scores[t]
  IN {p[j] : j \in (Len(p) - Min(top_k, Len(p)) + 1) .. Len(p)}

\* C1: a list detect returns has at most top_k detections.
C1_AtMostTopK ==
  \A t \in Threads :
    outcome[t] = "returned" => Len(inference_result[t]) <= top_k

\* C2: detect never ends in a lookup error, whatever label map load_labels
\* built and whatever code the engine gave a candidate above the threshold.
C2_NoLookupError ==
  \A t \in Threads : outcome[t] # "KeyError"

\* C3: the ranking always runs to its end, and the detections it returns are
\* exactly the candidates of the top_k window whose confidence is at least
\* the threshold and whose label code is a key of the label map.
C3_WindowCheckedIndependently ==
  \A t \in Threads :
    /\ outcome[t] # "KeyError"
    /\ outcome[t] = "returned" =>
         EmittedSet(t) = {i \in Window(t) : ClearsThreshold(i) /\ Resolvable(i)}

\* C4: the detections are in non-increasing order of confidence, and each
\* comes from an index below the detection count, with that entry's score.
C4_DescendingWithinCount ==
  \A t \in Threads :
    LET r == inference_result[t]
    IN /\ \A j \in 1 .. Len(r) - 1 : r[j].confidence >= r[j + 1].confidence
       /\ \A j \in 1 .. Len(r) :
            /\ r[j].i < num
            /\ r[j].confidence = scores[r[j].i]

\* C4's case: a returned list of two detections of different confidence,
\* with leftover entries behind the detection count.
C4_Witness ==
  \E t \in Threads :
    /\ outcome[t] = "returned"
    /\ num < MaxN
    /\ Len(inference_result[t]) >= 2
    /\ inference_result[t][1].confidence > inference_result[t][2].confidence

InUnit(c) == RLeq(Zero, c) /\ RLeq(c, One)

\* C5: every coordinate of every emitted box lies in [0, 1] (the raw
\* coordinates, 0 .. BoxUnits out of BoxUnits, all do).
C5_BoxInUnitSquare ==
  \A t \in Threads :
    \A j \in DOMAIN inference_result[t] :
      \A c \in 1 .. 4 : InUnit(inference_result[t][j].box[c])

Fits == shape[1] >= image.size[1] /\ shape[2] >= image.size[2]

FactorsInRange(t) ==
  w_factor[t] # Zero =>
    /\ w_factor[t] = <<thumbnail[t].size[1], shape[1]>>
    /\ h_factor[t] = <<thumbnail[t].size[2], shape[2]>>
    /\ ~RLeq(w_factor[t], Zero) /\ RLeq(w_factor[t], One)
    /\ ~RLeq(h_factor[t], Zero) /\ RLeq(h_factor[t], One)

\* C6 as stated: the thumbnail's larger dimension equals the tensor's, the
\* smaller one is at most the tensor's, and both factors lie in (0, 1].
C6_LargerDimensionEqualsTensor ==
  \A t \in Threads :
    thumbnail[t] # NoImage =>
      LET ts == thumbnail[t].size
      IN /\ ts[1] >= ts[2] => (ts[1] = shape[1] /\ ts[2] <= shape[2])
         /\ ts[2] >= ts[1] => (ts[2] = shape[2] /\ ts[1] <= shape[1])
         /\ FactorsInRange(t)

\* C6, amended: both thumbnail dimensions are at least 1 and at most the
\* tensor's, so both factors lie in (0, 1]; an image that fits the tensor
\* keeps its size, and an image that does not is shrunk until at least one
\* dimension equals the tensor's.
C6_ThumbnailWithinTensor ==
  \A t \in Threads :
    thumbnail[t] # NoImage =>
      LET ts == thumbnail[t].size
      IN /\ 1 <= ts[1] /\ ts[1] <= shape[1]
         /\ 1 <= ts[2] /\ ts[2] <= shape[2]
         /\ Fits => ts = image.size
         /\ ~Fits => (ts[1] = shape[1] \/ ts[2] = shape[2])
         /\ FactorsInRange(t)

\* C6's case: a shrunk thumbnail, narrower than the tensor, with its factors.
C6_Witness ==
  \E t \in Threads :
    /\ thumbnail[t] # NoImage
    /\ thumbnail[t].size # image.size
    /\ w_factor[t] # Zero
    /\ thumbnail[t].size[1] < shape[1]

PaddedRight(t) ==
  new_im[t] # NoImage =>
    /\ new_im[t].size = shape
    /\ DOMAIN new_im[t].pix = Coords(shape)
    /\ \A p \in Coords(shape) :
         new_im[t].pix[p] =
           IF p \in Coords(thumbnail[t].size) THEN thumbnail[t].pix[p] ELSE 0

\* C7: the padded image has exactly the tensor's size, holds the thumbnail's
\* pixels in its top-left corner and 0 everywhere else (right and bottom),
\* and padding leaves the thumbnail as it was.
C7_PaddedToTarget ==
  /\ [](\A t \in Threads : PaddedRight(t))
  /\ [][\A t \in Threads : pc[t] = "resize" => thumbnail'[t] = thumbnail[t]]_vars

\* C7's case: a thumbnail smaller than the tensor in both dimensions, holding
\* a non-zero pixel, has been padded.
C7_Witness ==
  \E t \in Threads :
    /\ new_im[t] # NoImage
    /\ thumbnail[t].size[1] < shape[1]
    /\ thumbnail[t].size[2] < shape[2]
    /\ \E p \in Coords(thumbnail[t].size) : thumbnail[t].pix[p] = 1

\* C8: no call ends inside _log_stats, whatever the clock read.
C8_LogStatsNeverRaises ==
  \A t \in Threads :
    outcome[t] \notin {"AssertionError:start_time", "ZeroDivisionError"}

StoreAdvances == last_time' >= last_time

CompletedCallStored ==
  \A t \in Threads :
    (pc[t] = "loop" /\ outcome'[t] = "returned") => last_time' = end_time'[t]

\* C9 as stated: under any interleaving of calls, every store to last_time
\* is at least the value it replaces, and when a call returns last_time is
\* that call's end time.
C9_LastTimeAdvances ==
  [][StoreAdvances /\ CompletedCallStored]_vars

\* C9, amended: the same, for calls made one at a time (a single thread
\* calls detect on the instance).
C9_LastTimeAdvancesSerially ==
  [][Cardinality(callers) = 1 => (StoreAdvances /\ CompletedCallStored)]_vars

\* C9's case: the only calling thread has returned from a call that took
\* time, and last_time holds that call's end.
C9_Witness ==
  \E t \in Threads :
    /\ callers = {t}
    /\ outcome[t] = "returned"
    /\ end_time[t] > start_time[t]
    /\ last_time = end_time[t]

====
